---- MODULE Spec2Model ----
(***************************************************************************)
(* Model of src/server.js: the Express chat API with two in-memory maps    *)
(* (conversations, messages), five request handlers and the deferred       *)
(* bot-reply timer callback.  Node runs every handler and every timer      *)
(* callback to completion on one event loop, so each one is one action.    *)
(***************************************************************************)
EXTENDS Integers, Sequences, FiniteSets, TLC

\* ---------------------------------------------------------------- bounds
MaxTime == 1     \* Date.now() ranges over 0..MaxTime (milliseconds)
MaxConvs == 1    \* at most this many distinct conversation ids are created
MaxSends == 1    \* at most this many successful Send Message requests

\* ------------------------------------------------------- request inputs
Users == {"u1"}
UserNames == {"Ann"}
Texts == {"Hi"}
\* the texts sent to the bot-response endpoint: a greeting that is a question
\* too, a question that asks for help, a call for help in upper and lower case
\* with spaces around it, and a text of no category
BotTexts == {"hi?", "help?", " Help ", "ok"}
\* a JSON number sent in the place of a text, written by its digits: it is
\* truthy and, unlike a string, has no toLowerCase method
NonStrings == {"7"}
\* the outcomes of Math.random().toString(36).substr(2, 9) that the runs draw
RandSuffixes == {"k3j9x0a1b"}
\* Math.floor(Math.random() * 3)
RandIndexes == 0 .. 2
\* the outcomes of it that the bot-reply timer callbacks draw
TimerIndexes == {0}
\* a conversation id no Create Conversation ever produces
UnknownId == "sf_conv_nobody_0"

BOT_RESPONSE_DELAY == 1000

\* --------------------------------------------------- JavaScript helpers
\* a JSON body is a record whose keys may be absent
EmptyBody == <<>>
Opt(f, S) == {EmptyBody} \cup {f :> v : v \in S}
\* !body[f] : absent (undefined) or the empty string
Falsy(body, f) == f \notin DOMAIN body \/ body[f] = ""
\* body[f] || d
OrElse(body, f, d) == IF Falsy(body, f) THEN d ELSE body[f]
\* destructuring default  { f = d } = body
Default(body, f, d) == IF f \in DOMAIN body THEN body[f] ELSE d

Range(s) == {s[i] : i \in DOMAIN s}

\* ------------------------------------------------------------ the ids
ConversationId(salesforceUserId, t) ==
    "sf_conv_" \o salesforceUserId \o "_" \o ToString(t)
MessageId(t, r) == "msg_" \o ToString(t) \o "_" \o r
BotMessageId(messageId) == "bot_" \o messageId

\* ------------------------------------------------- generateBotResponse
\* the characters of each message text of the model
Chars(s) ==
    CASE s = "Hi"     -> <<"H", "i">>
      [] s = "ok?"    -> <<"o", "k", "?">>
      [] s = "hi?"    -> <<"h", "i", "?">>
      [] s = "help?"  -> <<"h", "e", "l", "p", "?">>
      [] s = " Help " -> <<" ", "H", "e", "l", "p", " ">>
      [] s = "ok"     -> <<"o", "k">>
      [] s = "hello"  -> <<"h", "e", "l", "l", "o">>
      [] s = "hi"     -> <<"h", "i">>
      [] s = "hey"    -> <<"h", "e", "y">>
      [] s = "?"      -> <<"?">>
      [] s = "help"   -> <<"h", "e", "l", "p">>
      [] OTHER        -> <<>>

ToLowerChar(ch) ==
    CASE ch = "H" -> "h"
      [] OTHER    -> ch
ToLowerCase(cs) == [i \in DOMAIN cs |-> ToLowerChar(cs[i])]

IsSpace(ch) == ch = " "
RECURSIVE TrimStart(_)
TrimStart(cs) ==
    IF cs # <<>> /\ IsSpace(Head(cs)) THEN TrimStart(Tail(cs)) ELSE cs
RECURSIVE TrimEnd(_)
TrimEnd(cs) ==
    IF cs # <<>> /\ IsSpace(cs[Len(cs)])
    THEN TrimEnd(SubSeq(cs, 1, Len(cs) - 1)) ELSE cs
Trim(cs) == TrimEnd(TrimStart(cs))

Includes(cs, pat) ==
    \E i \in 1 .. (Len(cs) - Len(pat) + 1) :
        SubSeq(cs, i, i + Len(pat) - 1) = pat

responses ==
    [ greeting |-> <<
        "Hello! I'm your external chat assistant. Your message is stored in our external database!",
        "Hi there! I can see your message in our external system. How can I help?",
        "Welcome! This message came from our external API and is stored securely." >>,
      question |-> <<
        "That's a great question! I'm processing this through our external system.",
        "Interesting question! Let me check our external database for the best answer.",
        "I understand your query. Our external system is analyzing this for you." >>,
      help |-> <<
        "I can help you with: External data storage, Real-time messaging, Salesforce integration!",
        "I'm here to demonstrate two-way data transfer between Salesforce and external systems.",
        "This chat shows how messages flow between Salesforce and external databases in real-time!" >>,
      default |-> <<
        "Thanks for your message! This is stored externally and synced with Salesforce.",
        "I received your message in our external system. Everything is working perfectly!",
        "Your message is now in our external database and visible in Salesforce." >> ]

\* the question rule tried before the greeting rule
CategoryQuestionFirst(cs) ==
    IF Includes(cs, <<"?">>) THEN "question"
    ELSE IF \/ Includes(cs, <<"h", "e", "l", "l", "o">>)
            \/ Includes(cs, <<"h", "i">>)
            \/ Includes(cs, <<"h", "e", "y">>)
    THEN "greeting"
    ELSE IF Includes(cs, <<"h", "e", "l", "p">>) THEN "help"
    ELSE "default"

Category(cs) ==
    IF \/ Includes(cs, <<"h", "e", "l", "l", "o">>)
       \/ Includes(cs, <<"h", "i">>)
       \/ Includes(cs, <<"h", "e", "y">>)
    THEN "greeting"
    ELSE IF Includes(cs, <<"?">>) THEN "question"
    ELSE IF Includes(cs, <<"h", "e", "l", "p">>) THEN "help"
    ELSE "default"

\* userMessage.toLowerCase is not a function: the call throws a TypeError
Throws(userMessage) == userMessage \in NonStrings

\* k is Math.floor(Math.random() * 3)
generateBotResponse(userMessage, k) ==
    LET message == Trim(ToLowerCase(Chars(userMessage)))
    IN  responses[Category(message)][k + 1]

\* ------------------------------------------------------------- sorting
\* Array.prototype.sort((a, b) => new Date(a.timestamp) - new Date(b.timestamp)):
\* a stable sort by timestamp
\* the comparator: (a, b) => new Date(a.timestamp) - new Date(b.timestamp)
Compare(a, b) == a.timestamp - b.timestamp

\* equal timestamps put in the reverse of their stored order
PositionUnstable(s, i) ==
    1 + Cardinality({j \in DOMAIN s :
                        \/ Compare(s[j], s[i]) < 0
                        \/ Compare(s[j], s[i]) = 0 /\ j > i})

\* where the stable sort puts s[i]: behind the elements that compare less and
\* behind the elements before it that compare equal
Position(s, i) ==
    1 + Cardinality({j \in DOMAIN s :
                        \/ Compare(s[j], s[i]) < 0
                        \/ Compare(s[j], s[i]) = 0 /\ j < i})
\* the sort left out
SortNone(s) == s

SortByTimestamp(s) ==
    IF s = <<>> THEN <<>>
    ELSE [p \in DOMAIN s |-> s[CHOOSE i \in DOMAIN s : Position(s, i) = p]]

\* --------------------------------------------------------------- state
VARIABLES
    now,            \* Date.now() / new Date(): the wall clock
    conversations,  \* Map conversationId -> conversation record
    messages,       \* Map conversationId -> array of message records
    timers,         \* pending setTimeout callbacks, in insertion order
    res,            \* the request handled last and the status it was answered
    sent,           \* per conversation id: the messageIds answered by Send Message
    up              \* the process runs: no uncaught exception has ended it

vars == <<now, conversations, messages, timers, res, sent, up>>

Ids(ms) == [i \in DOMAIN ms |-> ms[i].id]

Init ==
    /\ now = 0
    /\ conversations = <<>>
    /\ messages = <<>>
    /\ timers = <<>>
    /\ res = [op |-> "none", status |-> 0]
    /\ sent = <<>>
    /\ up = TRUE

\* the number of Send Message requests answered with success so far
RECURSIVE SumLen(_, _)
SumLen(f, S) ==
    IF S = {} THEN 0
    ELSE LET c == CHOOSE x \in S : TRUE
         IN  Len(f[c]) + SumLen(f, S \ {c})
TotalSent == SumLen(sent, DOMAIN sent)

\* f with key k set to v (Map.prototype.set)
MapSet(f, k, v) == [x \in DOMAIN f \cup {k} |-> IF x = k THEN v ELSE f[x]]

\* ------------------------------------------------------- request bodies
\* userName is given, platform is left to its default
CreateExtras == {[userName |-> n] : n \in UserNames}
CreateBodies ==
    {a @@ b : a \in Opt("salesforceUserId", Users \cup {""}), b \in CreateExtras}
ConvIdInputs ==
    {ConversationId(u, t) : u \in Users, t \in 0 .. MaxTime} \cup {UnknownId}
\* the optional fields senderType, salesforceUserId and userName are left out
SendExtras == {EmptyBody}
SendBodies ==
    {a @@ b @@ c :
        a \in Opt("conversationId", ConvIdInputs \cup {""}),
        b \in Opt("messageText", Texts \cup NonStrings \cup {""}),
        c \in SendExtras}
BotResponseBodies ==
    {a @@ b : a \in {[conversationId |-> UnknownId]},
              b \in Opt("userMessage", BotTexts \cup NonStrings)}

ErrorBody(error) == [error |-> error]

\* ---------------------------------------------------------- GET /api/health
HealthBody ==
    [status |-> "OK",
     message |-> "Salesforce Chat API is running!",
     timestamp |-> now]

Health ==
    /\ up
    /\ res' = [op |-> "health", status |-> 200]
    /\ UNCHANGED <<now, conversations, messages, timers, sent, up>>

\* -------------------------------------------------- POST /api/conversations
\* only an absent salesforceUserId is rejected, not an empty one
CreateRejectedAbsentOnly(body) == "salesforceUserId" \notin DOMAIN body

CreateRejected(body) == Falsy(body, "salesforceUserId")

NewConversation(body, conversationId) ==
    [id |-> conversationId,
     salesforceUserId |-> body.salesforceUserId,
     userName |-> OrElse(body, "userName", "Salesforce User"),
     platform |-> Default(body, "platform", "salesforce"),
     status |-> "active",
     createdAt |-> now,
     updatedAt |-> now]

\* the JSON the handler answers
CreateBody(body) ==
    IF CreateRejected(body)
    THEN ErrorBody("salesforceUserId is required")
    ELSE [success |-> TRUE,
          conversationId |-> ConversationId(body.salesforceUserId, now),
          message |-> "Conversation created successfully",
          timestamp |-> now]

\* the request validated after the stores are written: the conversation of
\* a request without salesforceUserId is stored under "undefined"
CreateConversationStoreFirst(body) ==
    /\ up
    /\ LET given == body @@ [salesforceUserId |-> "undefined"]
           conversationId == ConversationId(given.salesforceUserId, now)
       IN  /\ conversations' =
                  MapSet(conversations, conversationId,
                         NewConversation(given, conversationId))
           /\ messages' = MapSet(messages, conversationId, <<>>)
           /\ sent' = IF conversationId \in DOMAIN sent THEN sent
                      ELSE MapSet(sent, conversationId, <<>>)
           /\ res' = [op |-> "create",
                      status |-> IF CreateRejected(body) THEN 400 ELSE 201]
           /\ UNCHANGED <<now, timers, up>>

\* messages.set(conversationId, []) left out
CreateConversationNoMessages(body) ==
    /\ up
    /\ IF CreateRejected(body)
       THEN /\ res' = [op |-> "create", status |-> 400]
            /\ UNCHANGED <<now, conversations, messages, timers, sent, up>>
       ELSE LET conversationId == ConversationId(body.salesforceUserId, now)
            IN  /\ \/ conversationId \in DOMAIN conversations
                   \/ Cardinality(DOMAIN conversations) < MaxConvs
                /\ conversations' =
                       MapSet(conversations, conversationId,
                              NewConversation(body, conversationId))
                /\ res' = [op |-> "create", status |-> 201]
                /\ sent' = IF conversationId \in DOMAIN sent THEN sent
                           ELSE MapSet(sent, conversationId, <<>>)
                /\ UNCHANGED <<now, messages, timers, up>>

CreateConversation(body) ==
    /\ up
    /\ IF CreateRejected(body)
       THEN /\ res' = [op |-> "create", status |-> 400]
            /\ UNCHANGED <<now, conversations, messages, timers, sent, up>>
       ELSE LET conversationId == ConversationId(body.salesforceUserId, now)
            IN  /\ \/ conversationId \in DOMAIN conversations
                   \/ Cardinality(DOMAIN conversations) < MaxConvs
                /\ conversations' =
                       MapSet(conversations, conversationId,
                              NewConversation(body, conversationId))
                /\ messages' = MapSet(messages, conversationId, <<>>)
                /\ res' = [op |-> "create", status |-> 201]
                /\ sent' = IF conversationId \in DOMAIN sent THEN sent
                           ELSE MapSet(sent, conversationId, <<>>)
                /\ UNCHANGED <<now, timers, up>>

\* ------------------------------------------------------- POST /api/messages
\* an unknown conversation answered like a missing field
SendStatusNoNotFound(body) ==
    IF Falsy(body, "conversationId") \/ Falsy(body, "messageText") THEN 400
    ELSE IF body.conversationId \notin DOMAIN conversations THEN 400
    ELSE 200

SendStatus(body) ==
    IF Falsy(body, "conversationId") \/ Falsy(body, "messageText") THEN 400
    ELSE IF body.conversationId \notin DOMAIN conversations THEN 404
    ELSE 200

UserMessage(body, messageId) ==
    [id |-> messageId,
     conversationId |-> body.conversationId,
     messageText |-> body.messageText,
     senderType |-> Default(body, "senderType", "user"),
     salesforceUserId |-> OrElse(body, "salesforceUserId", "unknown"),
     userName |-> OrElse(body, "userName", "User"),
     timestamp |-> now,
     isRead |-> FALSE]

\* the JSON the handler answers
SendBody(body, r) ==
    IF SendStatus(body) = 400
    THEN ErrorBody("conversationId and messageText are required")
    ELSE IF SendStatus(body) = 404
    THEN ErrorBody("Conversation not found")
    ELSE [success |-> TRUE,
          messageId |-> MessageId(now, r),
          storedIn |-> "external_database",
          timestamp |-> now]

SendMessage(body, r) ==
    /\ up
    /\ IF SendStatus(body) # 200
       THEN /\ res' = [op |-> "send", status |-> SendStatus(body)]
            /\ UNCHANGED <<now, conversations, messages, timers, sent, up>>
       ELSE LET conversationId == body.conversationId
                messageId == MessageId(now, r)
            IN  /\ messages' = [messages EXCEPT ![conversationId] =
                                   Append(@, UserMessage(body, messageId))]
                /\ conversations' =
                       [conversations EXCEPT ![conversationId].updatedAt = now]
                /\ timers' = Append(timers,
                                    [conversationId |-> conversationId,
                                     messageId |-> messageId,
                                     messageText |-> body.messageText,
                                     delay |-> BOT_RESPONSE_DELAY])
                /\ res' = [op |-> "send", status |-> 200]
                /\ sent' = [sent EXCEPT ![conversationId] = Append(@, messageId)]
                /\ UNCHANGED <<now, up>>

\* --------------------------------------------- the setTimeout bot callback
\* the reply stamped with the epoch, not with the time it is built at
BotMessageEpoch(timer, k) ==
    [id |-> BotMessageId(timer.messageId),
     conversationId |-> timer.conversationId,
     messageText |-> generateBotResponse(timer.messageText, k),
     senderType |-> "bot",
     salesforceUserId |-> "bot",
     userName |-> "Chat Assistant",
     timestamp |-> 0,
     isRead |-> FALSE]

BotMessage(timer, k) ==
    [id |-> BotMessageId(timer.messageId),
     conversationId |-> timer.conversationId,
     messageText |-> generateBotResponse(timer.messageText, k),
     senderType |-> "bot",
     salesforceUserId |-> "bot",
     userName |-> "Chat Assistant",
     timestamp |-> now,
     isRead |-> FALSE]

\* the timer scheduled last fires first
BotTimerLast(k) ==
    /\ up
    /\ timers # <<>>
    /\ timers' = SubSeq(timers, 1, Len(timers) - 1)
    /\ IF Throws(timers[Len(timers)].messageText)
       THEN /\ up' = FALSE
            /\ UNCHANGED messages
       ELSE /\ messages' = [messages EXCEPT ![timers[Len(timers)].conversationId] =
                               Append(@, BotMessage(timers[Len(timers)], k))]
            /\ UNCHANGED up
    /\ UNCHANGED <<now, conversations, res, sent>>

\* all timers have the same delay, so they fire in insertion order; an
\* exception thrown by the callback is caught by nobody and ends the process
BotTimer(k) ==
    /\ up
    /\ timers # <<>>
    /\ timers' = Tail(timers)
    /\ IF Throws(Head(timers).messageText)
       THEN /\ up' = FALSE
            /\ UNCHANGED messages
       ELSE /\ messages' = [messages EXCEPT ![Head(timers).conversationId] =
                               Append(@, BotMessage(Head(timers), k))]
            /\ UNCHANGED up
    /\ UNCHANGED <<now, conversations, res, sent>>

\* ------------------------- GET /api/conversations/:conversationId/messages
GetStatus(conversationId) ==
    IF conversationId \notin DOMAIN conversations THEN 404 ELSE 200

\* messages.get(conversationId) || []
ConversationMessages(conversationId) ==
    IF conversationId \in DOMAIN messages THEN messages[conversationId] ELSE <<>>

\* the JSON the handler answers
GetBody(conversationId) ==
    IF GetStatus(conversationId) = 404
    THEN ErrorBody("Conversation not found")
    ELSE [success |-> TRUE,
          conversationId |-> conversationId,
          messages |-> SortByTimestamp(ConversationMessages(conversationId)),
          totalCount |-> Len(ConversationMessages(conversationId)),
          timestamp |-> now]

GetMessages(conversationId) ==
    /\ up
    /\ res' = [op |-> "get", status |-> GetStatus(conversationId)]
    \* sort() sorts the stored array in place and returns it
    /\ messages' =
           IF GetStatus(conversationId) = 200 /\ conversationId \in DOMAIN messages
           THEN [messages EXCEPT ![conversationId] = SortByTimestamp(@)]
           ELSE messages
    /\ UNCHANGED <<now, conversations, timers, sent, up>>

\* ------------------------------------------- POST /api/chat/bot-response
\* undefined.toLowerCase() throws, as a non-string does, and the catch
\* answers 500
BotResponseStatus(body) ==
    IF "userMessage" \in DOMAIN body /\ ~Throws(body.userMessage)
    THEN 200 ELSE 500

\* the JSON the handler answers; JSON leaves an undefined conversationId out
BotResponseBody(body, k) ==
    IF BotResponseStatus(body) = 500
    THEN ErrorBody("Internal server error")
    ELSE [success |-> TRUE,
          botResponse |-> generateBotResponse(body.userMessage, k),
          timestamp |-> now]
         @@ [f \in DOMAIN body \cap {"conversationId"} |-> body[f]]

BotResponse(body, k) ==
    /\ up
    /\ res' = [op |-> "bot-response", status |-> BotResponseStatus(body)]
    /\ UNCHANGED <<now, conversations, messages, timers, sent, up>>

\* ------------------------------------------------------------ the clock
\* a millisecond passes
Tick ==
    /\ up
    /\ now < MaxTime
    /\ now' = now + 1
    /\ UNCHANGED <<conversations, messages, timers, res, sent, up>>

\* the system clock is set back (Date.now() is not monotonic)
ClockAdjust ==
    /\ up
    /\ \E t \in 0 .. (now - 1) : now' = t
    /\ UNCHANGED <<conversations, messages, timers, res, sent, up>>

\* the runs hold at most bound successful Send Message requests
SendAllowed(body, bound) == SendStatus(body) = 200 => TotalSent < bound

\* every action is a step of the running process: one that an uncaught
\* exception has ended takes no step
Next ==
    \/ Health
    \/ \E body \in CreateBodies : CreateConversation(body)
    \/ \E body \in SendBodies, r \in RandSuffixes :
           SendAllowed(body, MaxSends) /\ SendMessage(body, r)
    \/ \E k \in TimerIndexes : BotTimer(k)
    \/ \E conversationId \in ConvIdInputs : GetMessages(conversationId)
    \/ \E body \in BotResponseBodies, k \in RandIndexes : BotResponse(body, k)
    \/ Tick
    \/ ClockAdjust

Spec == Init /\ [][Next]_vars

\* The runs of Spec with one more successful Send Message, so that a
\* conversation gets two messages.
BusyNext ==
    \/ Health
    \/ \E body \in CreateBodies : CreateConversation(body)
    \/ \E body \in SendBodies, r \in RandSuffixes :
           SendAllowed(body, MaxSends + 1) /\ SendMessage(body, r)
    \/ \E k \in TimerIndexes : BotTimer(k)
    \/ \E conversationId \in ConvIdInputs : GetMessages(conversationId)
    \/ \E body \in BotResponseBodies, k \in RandIndexes : BotResponse(body, k)
    \/ Tick
    \/ ClockAdjust

BusySpec == Init /\ [][BusyNext]_vars

\* The runs of BusySpec in which the clock is never set back: Date.now() is
\* non-decreasing.
MonotoneNext ==
    \/ Health
    \/ \E body \in CreateBodies : CreateConversation(body)
    \/ \E body \in SendBodies, r \in RandSuffixes :
           SendAllowed(body, MaxSends + 1) /\ SendMessage(body, r)
    \/ \E k \in TimerIndexes : BotTimer(k)
    \/ \E conversationId \in ConvIdInputs : GetMessages(conversationId)
    \/ \E body \in BotResponseBodies, k \in RandIndexes : BotResponse(body, k)
    \/ Tick

MonotoneSpec == Init /\ [][MonotoneNext]_vars

\* Timers are fair: a timer callback that is due is run in the end, the event
\* loop being free after every handler.
TimerStep == \E k \in TimerIndexes : BotTimer(k)

FairSpec == Spec /\ WF_vars(TimerStep)


\* =================================================================== claims
MessageIds == {MessageId(t, r) : t \in 0 .. MaxTime, r \in RandSuffixes}
BotMessageIds == {BotMessageId(m) : m \in MessageIds}
\* the pending bot-reply timers of a conversation
PendingFor(c) == {i \in DOMAIN timers : timers[i].conversationId = c}
\* how often x occurs in the sequence s
Count(s, x) == Cardinality({i \in DOMAIN s : s[i] = x})
IsSorted(ms) ==
    \A i, j \in DOMAIN ms : i < j => ms[i].timestamp <= ms[j].timestamp
IsPermutation(a, b) ==
    /\ Len(a) = Len(b)
    /\ \A x \in Range(a) \cup Range(b) : Count(a, x) = Count(b, x)
\* the ids Get Messages answers for a conversation of the store
GetIds(c) == Ids(GetBody(c).messages)
\* the step is a successful Send Message to c
SendTo(c) ==
    \E text \in Texts \cup NonStrings, extras \in SendExtras, r \in RandSuffixes :
        LET body == [conversationId |-> c, messageText |-> text] @@ extras
        IN  SendStatus(body) = 200 /\ SendMessage(body, r)
\* the step is the bot-reply timer callback of a message of c
BotFor(c) ==
    /\ timers # <<>>
    /\ Head(timers).conversationId = c
    /\ \E k \in TimerIndexes : BotTimer(k)
\* the step is a Create Conversation
CreateAny == \E body \in CreateBodies : CreateConversation(body)

\* C1: for a conversation that got exactly one successful Send Message whose
\* bot-reply timer has fired, Get Messages answers exactly two messages: the
\* user message with the id Send Message answered, then the bot message whose
\* id is "bot_" followed by that id.
C1_SendBotGetReturnsTwo ==
    [][\A c \in ConvIdInputs :
          (/\ c \in DOMAIN conversations
           /\ Len(sent[c]) = 1
           /\ PendingFor(c) = {}
           /\ GetMessages(c))
          => GetIds(c) = <<sent[c][1], BotMessageId(sent[c][1])>>]_vars

\* C2: in every reachable state every bot message "bot_<X>" of a conversation's
\* stored sequence has the user message X at an earlier position of it.
C2_UserBeforeBot ==
    \A c \in DOMAIN messages :
        \A i \in DOMAIN messages[c] :
            messages[c][i].id \in BotMessageIds
            => \E j \in 1 .. (i - 1) :
                   BotMessageId(messages[c][j].id) = messages[c][i].id

\* C3: when all the timers of a conversation's n successful sends have fired,
\* its stored sequence holds exactly the n user messages and the n bot
\* messages, 2n messages in total (read in the states of the running process).
C3_NoAppendLost ==
    \A c \in DOMAIN messages :
        (up /\ PendingFor(c) = {})
        => /\ Len(messages[c]) = 2 * Len(sent[c])
           /\ \A m \in Range(sent[c]) :
                  /\ Count(Ids(messages[c]), m) = Count(sent[c], m)
                  /\ Count(Ids(messages[c]), BotMessageId(m)) = Count(sent[c], m)

\* C4: the message store is add-only: every message record stored for a
\* conversation is still stored for it, with the same fields, after every step.
C4_AddOnly ==
    [][\A c \in DOMAIN messages :
          /\ c \in DOMAIN messages'
          /\ \A m \in Range(messages[c]) :
                 Count(messages'[c], m) >= Count(messages[c], m)]_vars

\* C5: every successful Create Conversation answers a conversation id that no
\* earlier successful Create Conversation answered (the ids answered earlier
\* are the keys of the conversation store, which are never removed).
C5_FreshConversationId ==
    [][\A body \in CreateBodies :
          (~CreateRejected(body) /\ CreateConversation(body))
          => CreateBody(body).conversationId \notin DOMAIN conversations]_vars

C7_GetReadOnly ==
    [][\A c \in ConvIdInputs :
          GetMessages(c) => UNCHANGED <<conversations, messages>>]_vars

\* C8: a Send Message request whose conversationId is not a key of the
\* conversation store is answered 404, whatever its other fields are.
C8_UnknownConversation404 ==
    [][\A body \in SendBodies, r \in RandSuffixes :
          (/\ "conversationId" \in DOMAIN body
           /\ body.conversationId \notin DOMAIN conversations
           /\ SendMessage(body, r))
          => res'.status = 404]_vars

\* C8 amended: a Send Message request with a non-empty conversationId that is
\* not a key of the conversation store and a non-empty messageText is answered
\* 404, whatever its other fields are.
C8_UnknownConversation404Valid ==
    [][res'.op = "send"
       => \A body \in SendBodies, r \in RandSuffixes :
              (/\ ~Falsy(body, "conversationId")
               /\ ~Falsy(body, "messageText")
               /\ body.conversationId \notin DOMAIN conversations
               /\ SendMessage(body, r))
              => res' = [op |-> "send", status |-> 404]]_vars

\* a Send Message was answered 404 while the store holds a conversation
C8_Witness ==
    /\ res = [op |-> "send", status |-> 404]
    /\ DOMAIN conversations # {}

\* C9: a Create Conversation request whose salesforceUserId is absent or empty
\* is answered 400 with an error field and inserts nothing into either store.
C9_CreateWithoutUser400 ==
    [][\A body \in CreateBodies :
          (Falsy(body, "salesforceUserId") /\ CreateConversation(body))
          => /\ res' = [op |-> "create", status |-> 400]
             /\ "error" \in DOMAIN CreateBody(body)
             /\ UNCHANGED <<conversations, messages>>]_vars

\* a Create Conversation was answered 400 while the store holds a conversation
C9_Witness ==
    /\ res = [op |-> "create", status |-> 400]
    /\ DOMAIN conversations # {}

\* C10: Get Messages on an existing conversation answers 200 with all the
\* messages stored for it, in non-decreasing timestamp order, and totalCount is
\* their number; for a conversation with no messages it answers the empty
\* sequence and totalCount 0.
C10_GetAllSortedCounted ==
    [][\A c \in ConvIdInputs :
          (c \in DOMAIN conversations /\ GetMessages(c))
          => /\ res' = [op |-> "get", status |-> 200]
             /\ IsPermutation(GetBody(c).messages, messages[c])
             /\ IsSorted(GetBody(c).messages)
             /\ GetBody(c).totalCount = Len(GetBody(c).messages)
             /\ messages[c] = <<>>
                => GetBody(c).messages = <<>> /\ GetBody(c).totalCount = 0]_vars

\* a Get Messages was answered for a conversation whose bot reply is stamped
\* before the user message, and the stored array is in the order it answered
C10_Witness ==
    /\ res = [op |-> "get", status |-> 200]
    /\ \E c \in DOMAIN messages :
           /\ Len(messages[c]) = 2
           /\ messages[c][1].id = BotMessageId(messages[c][2].id)
           /\ messages[c][1].timestamp < messages[c][2].timestamp

\* C11: a successful Send Message answers once the user message is stored and
\* before the bot reply is: in the state it answers in, the conversation's
\* sequence is the one before with the user message appended, the message id
\* it answers is in it, and the bot message "bot_<that id>" is not; its timer
\* is pending, so that the bot append is a later step.
C11_SendDoesNotWait ==
    [][\A body \in SendBodies, r \in RandSuffixes :
          (SendStatus(body) = 200 /\ SendMessage(body, r))
          => LET c == body.conversationId
                 id == SendBody(body, r).messageId
             IN  /\ messages'[c] = Append(messages[c], UserMessage(body, id))
                 /\ id \in Range(Ids(messages'[c]))
                 /\ BotMessageId(id) \notin Range(Ids(messages'[c]))
                 /\ \E i \in PendingFor(c)' : timers'[i].messageId = id]_vars

\* the bot reply to the message messageId is stored for the conversation c
BotReplyStored(c, messageId) ==
    /\ c \in DOMAIN messages
    /\ \E i \in DOMAIN messages[c] :
           /\ messages[c][i].id = BotMessageId(messageId)
           /\ messages[c][i].senderType = "bot"
           /\ messages[c][i].conversationId = c

\* the timer of the reply to the message messageId of c is pending: the Send
\* Message was answered with success and its callback has not run
ReplyPending(c, messageId) ==
    \E i \in PendingFor(c) : timers[i].messageId = messageId

\* C12: with fair timers, every Send Message answered with success is followed
\* in the end by the append of its bot reply: from the state the send answers
\* in, where the timer of the reply is pending, a state is reached in which a
\* message with the id "bot_<messageId>", senderType "bot" and the same
\* conversationId is stored for the conversation.
C12_BotReplyEventually ==
    \A c \in ConvIdInputs, m \in MessageIds :
        ReplyPending(c, m) ~> BotReplyStored(c, m)

\* the rules of the classification, in their order of precedence
Rules ==
    << [category |-> "greeting", patterns |-> {"hello", "hi", "hey"}],
       [category |-> "question", patterns |-> {"?"}],
       [category |-> "help", patterns |-> {"help"}] >>
Matches(cs, rule) == \E pat \in rule.patterns : Includes(cs, Chars(pat))
\* the category of the first rule that matches, default when none does
FirstMatch(cs) ==
    IF \E i \in DOMAIN Rules : Matches(cs, Rules[i])
    THEN LET first == CHOOSE i \in DOMAIN Rules :
                          /\ Matches(cs, Rules[i])
                          /\ \A j \in 1 .. (i - 1) : ~Matches(cs, Rules[j])
         IN  Rules[first].category
    ELSE "default"

\* C13: for every input string and every outcome of the random pick, what
\* generateBotResponse returns (what the bot-response endpoint answers as
\* botResponse to a request it answers with success) is one of the three
\* template strings of the category of the first rule, in the order greeting,
\* question, help, that the lower-cased and trimmed input matches, default
\* when none matches, and a template of no other category.
C13_ClassifiedByFirstRule ==
    res = [op |-> "bot-response", status |-> 200]
    => \A body \in BotResponseBodies, k \in RandIndexes :
           BotResponseStatus(body) = 200
           => LET out == BotResponseBody(body, k).botResponse
                  cat == FirstMatch(Trim(ToLowerCase(Chars(body.userMessage))))
              IN  /\ Len(responses[cat]) = 3
                  /\ out = responses[cat][k + 1]
                  /\ \A other \in DOMAIN responses \ {cat} :
                         out \notin Range(responses[other])

\* the bot-response endpoint has answered a text with success
C13_Witness == res = [op |-> "bot-response", status |-> 200]

\* C14: conversations are never removed: in every reachable state the
\* conversation store and the message store have the same keys, no step
\* removes a key, and the conversationId of a bot-reply timer that fires is a
\* key of both stores.
C14_ConversationsKept ==
    /\ [](DOMAIN conversations = DOMAIN messages)
    /\ [][/\ DOMAIN conversations \subseteq DOMAIN conversations'
          /\ DOMAIN messages \subseteq DOMAIN messages'
          /\ TimerStep
             => Head(timers).conversationId
                    \in DOMAIN conversations \cap DOMAIN messages]_vars

\* a bot-reply timer has fired and its message is stored for a conversation
C14_Witness ==
    \E c \in DOMAIN conversations :
        \E i \in DOMAIN messages[c] : messages[c][i].senderType = "bot"

\* C15: updatedAt is the only field of a conversation record that changes
\* after the creation: a successful Send Message to the conversation sets its
\* updatedAt to the current time and leaves its other fields as they are, and
\* every other step leaves the whole record as it is.
C15_OnlyUpdatedAtChanges ==
    [][\A c \in DOMAIN conversations :
          conversations'[c] # conversations[c]
          => /\ SendTo(c)
             /\ conversations'[c] =
                    [conversations[c] EXCEPT !.updatedAt = now]]_vars

\* C16: with a non-decreasing clock (MonotoneSpec), every conversation's
\* stored sequence is in non-decreasing timestamp order in every reachable
\* state, so that the sort of Get Messages changes nothing: what it answers is
\* the stored sequence, in the order of the appends.
C16_StoredInTimestampOrder ==
    \A c \in DOMAIN conversations :
        /\ IsSorted(messages[c])
        /\ GetBody(c).messages = messages[c]

\* Get Messages has answered a conversation that holds the messages of two
\* sends and a bot reply, appended at different times
C16_Witness ==
    /\ res = [op |-> "get", status |-> 200]
    /\ \E c \in DOMAIN conversations :
           /\ Len(messages[c]) >= 3
           /\ \E i, j \in DOMAIN messages[c] :
                  messages[c][i].timestamp < messages[c][j].timestamp

\* the ids of the messages of c whose reply timers are pending, in the order
\* the timers fire in
PendingIds(c) ==
    LET OfC(timer) == timer.conversationId = c
        pending == SelectSeq(timers, OfC)
    IN  [i \in DOMAIN pending |-> pending[i].messageId]
\* s is the end of t
IsSuffix(s, t) ==
    /\ Len(s) <= Len(t)
    /\ \A i \in DOMAIN s : s[i] = t[Len(t) - Len(s) + i]

\* C17: the bot replies of a conversation are appended in the order of the
\* user messages they reply to: in every state the replies still to come are,
\* in the order their timers fire in, those to the conversation's latest user
\* messages in the order these were appended in, and a timer callback that
\* appends a reply appends the one to the first of them, the oldest user
\* message without a reply.
C17_RepliesInSendOrder ==
    /\ [](\A c \in DOMAIN sent : IsSuffix(PendingIds(c), sent[c]))
    /\ [][\A c \in DOMAIN sent :
             (BotFor(c) /\ up')
             => /\ Len(messages'[c]) = Len(messages[c]) + 1
                /\ messages'[c][Len(messages'[c])].id
                       = BotMessageId(PendingIds(c)[1])
                /\ PendingIds(c)' = Tail(PendingIds(c))]_vars

\* two user messages with different ids were sent to a conversation and both
\* replies are stored, the reply to the first before the reply to the second
C17_Witness ==
    \E c \in DOMAIN sent :
        /\ Len(sent[c]) = 2
        /\ sent[c][1] # sent[c][2]
        /\ \E i, j \in DOMAIN messages[c] :
               /\ i < j
               /\ messages[c][i].id = BotMessageId(sent[c][1])
               /\ messages[c][j].id = BotMessageId(sent[c][2])

\* the step is a Send Message
SendAny == \E body \in SendBodies, r \in RandSuffixes : SendMessage(body, r)
\* the step is a Get Messages
GetAny == \E c \in ConvIdInputs : GetMessages(c)

\* C18: a Create Conversation, Send Message or Get Messages request that is
\* answered 400 or 404 leaves the conversation store and the message store as
\* they are and schedules no bot-reply timer.
C18_ErrorsChangeNothing ==
    [][(/\ res'.status \in {400, 404}
        /\ CreateAny \/ SendAny \/ GetAny)
       => UNCHANGED <<conversations, messages, timers>>]_vars

\* Get Messages was answered 404 while a conversation holds a message and a
\* bot-reply timer is pending
C18_Witness ==
    /\ res = [op |-> "get", status |-> 404]
    /\ timers # <<>>
    /\ \E c \in DOMAIN messages : messages[c] # <<>>

\* the positions of the bot-callback messages in the sequence of c
BotPositions(c) == {i \in DOMAIN messages[c] : messages[c][i].id \in BotMessageIds}

\* C19: every successful Send Message gets at most one bot reply: in every
\* reachable state of the running process, for every conversation, the
\* bot-callback messages of its sequence and its pending bot-reply timers are
\* together as many as the successful Send Message calls made to it, and no
\* two messages of the sequence have the same "bot_<id>" id.
C19_OneReplyPerSend ==
    up => \A c \in DOMAIN messages :
              /\ Cardinality(BotPositions(c)) + Cardinality(PendingFor(c))
                     = Len(sent[c])
              /\ \A i, j \in BotPositions(c) :
                     messages[c][i].id = messages[c][j].id => i = j

====
